---- MODULE Spec2Model ----
(***************************************************************************)
(* A model of the web crawler of rag_chatbot (ingest/web_scraper.py):      *)
(* URL normalisation, the robots.txt cache, the per-domain rate limiter,   *)
(* the two-tier extractor and the crawl loop.                              *)
(*                                                                         *)
(* A URL is a sequence of one-character strings, so that urlparse and      *)
(* _normalize_url are computed character by character as Python does.      *)
(***************************************************************************)
EXTENDS Integers, Sequences, FiniteSets, TLC

(***************************************************************************)
(* Strings                                                                 *)
(***************************************************************************)

\* Python's None, and a value that is not None: an optional value is a sequence
\* of length 0 or 1.
None == <<>>

Some(v) == <<v>>

UpperChars == {"A", "B", "H", "P", "T"}

LowerChars == {"a", "b", "h", "p", "t", "x"}

\* urllib.parse.scheme_chars: letters, digits and "+-."
scheme_chars == UpperChars \cup LowerChars \cup {"1", "+", "-", "."}

\* str.lower() on one character
LowerChar(c) ==
    CASE c = "A" -> "a"
      [] c = "B" -> "b"
      [] c = "H" -> "h"
      [] c = "P" -> "p"
      [] c = "T" -> "t"
      [] OTHER -> c

\* str.lower()
Lower(s) == [i \in 1..Len(s) |-> LowerChar(s[i])]

\* c in s
Contains(s, c) == \E i \in 1..Len(s) : s[i] = c

\* The least and the greatest of a set of positions; 0, which is no position,
\* for the empty set (where Python's find gives -1).
First(hits) == IF hits = {} THEN 0 ELSE CHOOSE i \in hits : \A j \in hits : i <= j

Last(hits) == IF hits = {} THEN 0 ELSE CHOOSE i \in hits : \A j \in hits : i >= j

\* s.find(c, start), 1-based
Find(s, c, start) == First({i \in start..Len(s) : s[i] = c})

\* s.rfind(c), 1-based
RFind(s, c) == Last({i \in 1..Len(s) : s[i] = c})

\* s[:i-1] and s[i:] in 1-based terms: the characters before and from position i
Before(s, i) == SubSeq(s, 1, i - 1)

From(s, i) == SubSeq(s, i, Len(s))

\* s.rstrip(c)
RECURSIVE RStrip(_, _)
RStrip(s, c) ==
    IF Len(s) > 0 /\ s[Len(s)] = c THEN RStrip(Before(s, Len(s)), c) ELSE s

(***************************************************************************)
(* urllib.parse.urlparse, as _get_domain and _normalize_url use it         *)
(***************************************************************************)

\* urllib.parse.uses_params: the schemes whose last path segment is split at ";"
uses_params ==
    { <<>>,
      <<"f","t","p">>, <<"h","d","l">>, <<"p","r","o","s","p","e","r","o">>,
      <<"h","t","t","p">>, <<"i","m","a","p">>, <<"h","t","t","p","s">>,
      <<"s","h","t","t","p">>, <<"r","t","s","p">>, <<"r","t","s","p","s">>,
      <<"r","t","s","p","u">>, <<"s","i","p">>, <<"s","i","p","s">>,
      <<"m","m","s">>, <<"s","f","t","p">>, <<"t","e","l">> }

\* urlsplit, first step: a leading "<scheme>:" is split off when the text before
\* the first ":" is not empty, starts with a letter and holds scheme characters only
SplitSchemeAt(url, i) ==
    IF i > 1 /\ url[1] \in UpperChars \cup LowerChars /\ \A k \in 1..(i - 1) : url[k] \in scheme_chars
    THEN [scheme |-> Lower(Before(url, i)), rest |-> From(url, i + 1)]
    ELSE [scheme |-> <<>>, rest |-> url]

SplitScheme(url) == SplitSchemeAt(url, Find(url, ":", 1))

\* _splitnetloc(url, 2): the network location ends at the first of "/", "?", "#"
SplitNetlocAt(url, delim) ==
    IF delim = 0
    THEN [netloc |-> From(url, 3), rest |-> <<>>]
    ELSE [netloc |-> SubSeq(url, 3, delim - 1), rest |-> From(url, delim)]

SplitNetloc(url) ==
    SplitNetlocAt(url, First({i \in 3..Len(url) : url[i] \in {"/", "?", "#"}}))

\* url.split(c, 1)[0]: the text before the first c (all of it without a c)
BeforeFirst(url, i) == IF i = 0 THEN url ELSE Before(url, i)

SplitHead(url, c) == BeforeFirst(url, Find(url, c, 1))

\* urlsplit, second step: a "//" opens the network location
SplitAuthority(rest) ==
    IF Len(rest) >= 2 /\ rest[1] = "/" /\ rest[2] = "/"
    THEN SplitNetloc(rest)
    ELSE [netloc |-> <<>>, rest |-> rest]

\* urlsplit, last steps: the fragment, then the query, are cut off the path
SplitPath(s, n) ==
    [scheme |-> s.scheme, netloc |-> n.netloc,
     path |-> SplitHead(SplitHead(n.rest, "#"), "?")]

SplitRest(s) == SplitPath(s, SplitAuthority(s.rest))

\* urlsplit(url): scheme, netloc and path
urlsplit(url) == SplitRest(SplitScheme(url))

\* _splitparams(url)[0]: the path without the ";params" of its last segment
SplitParams(url) ==
    BeforeFirst(url, IF Contains(url, "/")
                     THEN Find(url, ";", RFind(url, "/"))
                     ELSE Find(url, ";", 1))

\* urlparse, after urlsplit: the parameters are cut off for the schemes that use them
ParseSplit(r) ==
    IF r.scheme \in uses_params /\ Contains(r.path, ";")
    THEN [r EXCEPT !.path = SplitParams(r.path)]
    ELSE r

\* urlparse(url): scheme, netloc and path
urlparse(url) == ParseSplit(urlsplit(url))

\* f"{parsed.scheme}://{parsed.netloc}"
DomainOf(parsed) == parsed.scheme \o <<":", "/", "/">> \o parsed.netloc

\* WebScraper._get_domain
_get_domain(url) == DomainOf(urlparse(url))

\* "x or '/'"
OrRoot(path) == IF path = <<>> THEN <<"/">> ELSE path

\* _normalize_url, lines 51-54
NormalizeParsed(parsed) ==
    Lower(DomainOf(parsed) \o OrRoot(RStrip(parsed.path, "/")))

\* WebScraper._normalize_url
_normalize_url(url) == NormalizeParsed(urlparse(url))

(***************************************************************************)
(* The web the crawler runs against                                        *)
(***************************************************************************)

HTTP == <<"h", "t", "t", "p", ":", "/", "/">>

\* Raw URLs, as a caller types them or as urljoin resolves an anchor's href.
U_root       == HTTP \o <<"a", "/">>
U_root_bare  == HTTP \o <<"a">>
U_root_upper == <<"H", "T", "T", "P", ":", "/", "/", "A", "/">>
U_p          == HTTP \o <<"a", "/", "p">>
U_p_slash    == HTTP \o <<"a", "/", "p", "/">>
U_p_frag     == HTTP \o <<"a", "/", "P", "#", "x">>
U_x          == HTTP \o <<"a", "/", "x">>
U_x_query    == HTTP \o <<"a", "/", "x", "?", "p">>
U_b          == HTTP \o <<"b", "/">>

\* The seed lists a caller passes to crawl.
SeedLists ==
    { <<U_root>>,
      <<U_root_upper, U_p_slash, U_root_bare>>,
      <<U_p_slash, U_b>> }

\* The anchors of each page, resolved against the page's URL (urljoin): the root
\* links to /p and to another site, /p links to /x and back to the root, /x
\* links back to /p and the other site links to itself and to /x, so that /p
\* is found under several spellings and /x along several paths.
SiteHtml(url) ==
    CASE url = U_root -> {U_p_slash, U_b}
      [] url = U_p    -> {U_x_query, U_root_bare}
      [] url = U_x    -> {U_p_frag}
      [] url = U_b    -> {U_b, U_x}
      [] OTHER        -> {}

\* len(text) of what trafilatura extracts from a fetched page
TextLens == {40, 150, 500}

(***************************************************************************)
(* Program constants                                                       *)
(***************************************************************************)

MIN_REQUEST_DELAY == 1

\* "if not text or len(text.strip()) < 100"
MIN_TEXT_LEN == 100

\* "len(result.get('text', '')) < 200"
PLAYWRIGHT_RETRY_LEN == 200

(***************************************************************************)
(* Bounds of the model                                                     *)
(***************************************************************************)

MaxDepth == 1

MaxPages == 3

\* How long a request takes, in seconds; 0 is a request that takes less than
\* one tick of the clock.
Latencies == {0, MIN_REQUEST_DELAY}

(***************************************************************************)
(* State                                                                   *)
(***************************************************************************)

VARIABLES
    \* WebScraper.__init__
    max_depth, same_domain_only, max_pages, visited_urls, robots_cache,
    last_request_time, playwright_browser, playwright_instance,
    \* module level: whether "from playwright.async_api import ..." succeeded
    PLAYWRIGHT_AVAILABLE,
    \* locals of crawl, and where it stands; cur and result, the target and the
    \* extraction of one iteration, are None between iterations
    pc, to_visit, results, pages_crawled, cur, result,
    \* what the run did, recorded for the properties
    since_request, last_request, events, robots_fetches, open_drivers, open_browsers,
    \* what the headless browser did for the page being extracted; None when
    \* it was not tried, and between extractions
    dynamic,
    \* how many calls of crawl on this instance have returned before this one
    earlier_runs,
    \* the inputs and results of the _normalize_url harness
    n_url, n_variant, n_res, n_vres,
    \* deduplicate_chunks: its arguments, its locals and where it stands
    chunks, embeddings, threshold, dedup_i, filtered_chunks, filtered_embeddings,
    kept_indices, dedup_pc

scraper_vars == <<max_depth, same_domain_only, max_pages, visited_urls, robots_cache,
                  last_request_time, playwright_browser, playwright_instance,
                  PLAYWRIGHT_AVAILABLE>>

crawl_vars == <<pc, to_visit, results, pages_crawled, cur, result>>

history_vars == <<since_request, last_request, events, robots_fetches, open_drivers,
                  open_browsers, dynamic, earlier_runs>>

norm_vars == <<n_url, n_variant, n_res, n_vres>>

dedup_vars == <<chunks, embeddings, threshold, dedup_i, filtered_chunks,
                filtered_embeddings, kept_indices, dedup_pc>>

\* ask_pdf: GROQ_MODEL, the Groq service's answer for each model, the locals
\* model_name and resp, the position in fallback_models[1:], the models asked
\* so far (history) and the control point
VARIABLES user_model, groq, model_name, fallback_i, tried, resp, ask_pc

ask_vars == <<user_model, groq, model_name, fallback_i, tried, resp, ask_pc>>

\* embed_web_to_qdrant: the pages of the call, the metadata of their chunks,
\* the points of the Qdrant collection, the identifiers written so far
\* (history) and the number of calls
VARIABLES web_pages, all_metadata, store, written, n_calls

embed_vars == <<web_pages, all_metadata, store, written, n_calls>>

\* model_cache: the module's globals (_model_lock as the thread that holds
\* it), the control point of each thread inside get_embedding_model, and as
\* history the value each thread's last returning call returned and the
\* number of instances constructed
VARIABLES _model_instance, _model_loading, _model_lock, get_pc, returned, n_loaded

cache_vars == <<_model_instance, _model_loading, _model_lock, get_pc, returned, n_loaded>>

\* The variables that crawl, _normalize_url and deduplicate_chunks leave alone.
not_crawl_vars == <<norm_vars, dedup_vars, ask_vars, embed_vars, cache_vars>>

not_norm_vars == <<scraper_vars, crawl_vars, history_vars, dedup_vars, ask_vars, embed_vars, cache_vars>>

not_dedup_vars == <<scraper_vars, crawl_vars, history_vars, norm_vars, ask_vars, embed_vars, cache_vars>>

vars == <<scraper_vars, crawl_vars, history_vars, norm_vars, dedup_vars, ask_vars, embed_vars, cache_vars>>

\* An empty dict.
EmptyDict == <<>>

\* dict.get(key, default)
Get(dict, key, default) == IF key \in DOMAIN dict THEN dict[key] ELSE default

\* dict[key] = value
Put(dict, key, value) == (key :> value) @@ dict

(***************************************************************************)
(* Robots policy: urllib.robotparser as _check_robots_txt uses it          *)
(***************************************************************************)

\* What RobotFileParser.read() can do (urllib): raise (no connection, timeout,
\* undecodable body), swallow an HTTP error, or parse the Disallow lines for "*".
\* A parsed file is given by the path prefixes it disallows.
ReadOutcomes ==
    { [kind |-> "raise",         rules |-> {}],
      [kind |-> "http_401_403",  rules |-> {}],
      [kind |-> "http_4xx",      rules |-> {}],
      [kind |-> "http_5xx",      rules |-> {}],
      [kind |-> "parsed",        rules |-> {<<"/", "p">>}] }

\* The outcomes in which fetching robots.txt failed: nothing was fetched and parsed.
FetchFailed == {"raise", "http_401_403", "http_4xx", "http_5xx"}

\* The RobotFileParser after a read() that did not raise.
ParserAfterRead(outcome) ==
    [ disallow_all |-> outcome.kind = "http_401_403",
      allow_all    |-> outcome.kind = "http_4xx",
      last_checked |-> outcome.kind = "parsed",
      rules        |-> outcome.rules,
      read_as      |-> outcome.kind ]

\* s.startswith(prefix)
StartsWith(s, prefix) ==
    Len(prefix) <= Len(s) /\ SubSeq(s, 1, Len(prefix)) = prefix

\* RobotFileParser.can_fetch('*', url)
Allowance(rp, filename) ==
    IF rp.disallow_all THEN FALSE
    ELSE IF rp.allow_all THEN TRUE
    ELSE IF ~rp.last_checked THEN FALSE
    ELSE \A rule \in rp.rules : ~StartsWith(filename, rule)

can_fetch(rp, url) == Allowance(rp, OrRoot(urlsplit(url).path))

\* _check_robots_txt, lines 62-71: what is cached for a domain on a cache miss
CacheAfterRead(outcome) ==
    IF outcome.kind = "raise" THEN None ELSE Some(ParserAfterRead(outcome))

\* a plausible bug: robots.txt is fetched on every query
Mut_CacheMiss_always(cache, domain) == TRUE

\* _check_robots_txt, line 61: "domain not in self.robots_cache"
CacheMiss(cache, domain) == domain \notin DOMAIN cache

\* What read() may do for this query: nothing is read on a cache hit.
ReadChoices(url) ==
    IF CacheMiss(robots_cache, _get_domain(url)) THEN ReadOutcomes
    ELSE {[kind |-> "cached", rules |-> {}]}

\* _check_robots_txt: the cache after the query
CacheAfter(domain, outcome) ==
    IF CacheMiss(robots_cache, domain)
    THEN Put(robots_cache, domain, CacheAfterRead(outcome))
    ELSE robots_cache

\* _check_robots_txt, lines 73-77: the answer of the cached policy
Answer(rp, url) == IF rp = None THEN TRUE ELSE can_fetch(rp[1], url)

\* _check_robots_txt: the answer
_check_robots_txt(url, outcome) ==
    Answer(CacheAfter(_get_domain(url), outcome)[_get_domain(url)], url)

\* The robots.txt fetches of the run, one entry per read().
FetchesOf(domain, outcome) ==
    IF CacheMiss(robots_cache, domain)
    THEN Append(robots_fetches, [domain |-> domain, outcome |-> outcome.kind])
    ELSE robots_fetches

(***************************************************************************)
(* Rate limiter                                                            *)
(***************************************************************************)

(* The program reads the clock only to take the difference                 *)
(* time.time() - last_request_time[domain] and to compare it with          *)
(* MIN_REQUEST_DELAY. The model therefore keeps, in last_request_time, for  *)
(* each domain how long ago its last rate-limited request started, counted  *)
(* up to MIN_REQUEST_DELAY (a domain without an entry reads as the epoch,   *)
(* long ago). Time passes while the program sleeps and while a request      *)
(* runs.                                                                    *)

\* The same readings, seconds later.
Later(ago, seconds) ==
    [d \in DOMAIN ago |->
        IF ago[d] + seconds < MIN_REQUEST_DELAY THEN ago[d] + seconds ELSE MIN_REQUEST_DELAY]

\* _rate_limit, lines 82-86: how long time.sleep is called for
SleepFor(elapsed) ==
    IF elapsed < MIN_REQUEST_DELAY THEN MIN_REQUEST_DELAY - elapsed ELSE 0

RateLimitSleep(url) ==
    SleepFor(Get(last_request_time, _get_domain(url), MIN_REQUEST_DELAY))

\* For the properties: since_request keeps, like last_request_time, how long
\* ago the last request to each domain started, rate-limited or not, and
\* last_request is the latest request with the gap to the one before it on
\* the same domain.
RequestTo(domain, url, kind, ago) ==
    [domain |-> domain, url |-> url, kind |-> kind,
     gap |-> Get(ago, domain, MIN_REQUEST_DELAY)]

(***************************************************************************)
(* Link discovery                                                          *)
(***************************************************************************)

\* a plausible bug: same_domain_only is not looked at
Mut_LinksOf_all(html, base_domain) ==
    {_normalize_url(absolute_url) : absolute_url \in html}

\* _extract_links: html is the set of the page's anchors, resolved by urljoin
LinksOf(html, base_domain) ==
    {n \in {_normalize_url(absolute_url) : absolute_url \in html} :
        same_domain_only => _get_domain(n) = base_domain}

_extract_links(html, base_url) == LinksOf(html, _get_domain(base_url))

\* list(set(links)): the set in some order
Orders(S) ==
    {f \in [1..Cardinality(S) -> S] : \A i, j \in 1..Cardinality(S) : f[i] = f[j] => i = j}

(***************************************************************************)
(* Content extraction                                                      *)
(***************************************************************************)

\* What the static fetch can give: an error (transport, status, parsing) or a
\* page whose extracted text has one of the lengths of TextLens.
StaticOutcomes == {[kind |-> "error", textlen |-> 0]} \cup
                  {[kind |-> "page", textlen |-> n] : n \in TextLens}

\* _extract_text_static, after the request: the page, or None
_extract_text_static(url, outcome) ==
    IF outcome.kind = "error" \/ outcome.textlen < MIN_TEXT_LEN
    THEN None
    ELSE Some([url |-> url, textlen |-> outcome.textlen, html |-> SiteHtml(url),
               via |-> "static"])

\* a plausible bug: the browser is tried whatever the static tier gave
Mut_NeedsPlaywright_any(res) == PLAYWRIGHT_AVAILABLE

\* _extract_text, line 190: whether the headless browser is tried
NeedsPlaywright(res) ==
    /\ res = None \/ res[1].textlen < PLAYWRIGHT_RETRY_LEN
    /\ PLAYWRIGHT_AVAILABLE

\* What the headless-browser attempt can do: the event loop refuses to run the
\* coroutine, the driver or the browser fails to start (only when there is no
\* browser yet), the navigation fails or times out, or the page renders.
PlaywrightOutcomes ==
    {[kind |-> k, textlen |-> 0] : k \in {"loop_error", "goto_error"}} \cup
    {[kind |-> k, textlen |-> 0] :
         k \in IF playwright_browser = None THEN {"start_error", "launch_error"} ELSE {}} \cup
    {[kind |-> "page", textlen |-> n] : n \in TextLens}

\* Whether the attempt reaches page.goto, that is, issues a request.
Navigates(outcome) == outcome.kind \in {"goto_error", "page"}

\* a plausible bug: the browser's text is held against the threshold of line 190
Mut_extract_text_playwright_retry_len(url, outcome) ==
    IF outcome.kind # "page" \/ outcome.textlen < PLAYWRIGHT_RETRY_LEN
    THEN None
    ELSE Some([url |-> url, textlen |-> outcome.textlen, html |-> SiteHtml(url),
               via |-> "playwright"])

\* _extract_text_playwright: the page, or None
_extract_text_playwright(url, outcome) ==
    IF outcome.kind # "page" \/ outcome.textlen < MIN_TEXT_LEN
    THEN None
    ELSE Some([url |-> url, textlen |-> outcome.textlen, html |-> SiteHtml(url),
               via |-> "playwright"])

\* The next handle: drivers and browsers are numbered as they are started.
NextHandle(open) == Cardinality(open) + 1

(***************************************************************************)
(* crawl                                                                   *)
(***************************************************************************)

\* __init__, lines 36-40, and a crawl that has not been called yet
Constructed ==
    /\ visited_urls = {}
    /\ robots_cache = EmptyDict
    /\ last_request_time = EmptyDict
    /\ playwright_browser = None
    /\ playwright_instance = None
    /\ pc = "idle"
    /\ to_visit = <<>>
    /\ results = <<>>
    /\ pages_crawled = 0
    /\ cur = None
    /\ result = None
    /\ since_request = EmptyDict
    /\ last_request = None
    /\ events = <<>>
    /\ robots_fetches = <<>>
    /\ open_drivers = {}
    /\ open_browsers = {}
    /\ dynamic = None
    /\ earlier_runs = 0

\* The state of the components that a run of the component "me" does not call.
NotCalled(me) ==
    /\ IF me = "crawl" THEN TRUE
       ELSE /\ max_depth = 0
            /\ same_domain_only = TRUE
            /\ max_pages = 1
            /\ PLAYWRIGHT_AVAILABLE = FALSE
            /\ Constructed
    /\ IF me = "normalize" THEN TRUE
       ELSE /\ n_url = <<>>
            /\ n_variant = <<>>
            /\ n_res = <<>>
            /\ n_vres = None
    /\ IF me = "dedup" THEN TRUE
       ELSE /\ chunks = <<>>
            /\ embeddings = <<>>
            /\ threshold = 0
            /\ dedup_i = 0
            /\ filtered_chunks = <<>>
            /\ filtered_embeddings = <<>>
            /\ kept_indices = <<>>
            /\ dedup_pc = "idle"
    /\ IF me = "ask" THEN TRUE
       ELSE /\ user_model = None
            /\ groq = <<>>
            /\ model_name = None
            /\ fallback_i = 0
            /\ tried = <<>>
            /\ resp = None
            /\ ask_pc = "idle"
    /\ IF me = "embed" THEN TRUE
       ELSE /\ web_pages = <<>>
            /\ all_metadata = <<>>
            /\ store = {}
            /\ written = {}
            /\ n_calls = 0
    /\ IF me = "cache" THEN TRUE
       ELSE /\ _model_instance = None
            /\ _model_loading = FALSE
            /\ _model_lock = None
            /\ get_pc = <<>>
            /\ returned = <<>>
            /\ n_loaded = 0

\* The state after WebScraper(max_depth, same_domain_only, max_pages).
Init ==
    /\ max_depth \in 0..MaxDepth
    /\ same_domain_only \in BOOLEAN
    /\ max_pages \in 1..MaxPages
    /\ PLAYWRIGHT_AVAILABLE \in BOOLEAN
    /\ Constructed
    /\ NotCalled("crawl")

\* a plausible bug: the callback is not called
Mut_Report_dropped(url, status, depth) == events

\* progress_callback(url, status, depth): the call is recorded; the callback is
\* the caller's code and may raise, which ends crawl at that line.
Report(url, status, depth) == Append(events, [url |-> url, status |-> status, depth |-> depth])

\* crawl, lines 220-221: the frontier of the seeds
Seeded(start_urls) ==
    [i \in 1..Len(start_urls) |->
        [url |-> _normalize_url(start_urls[i]), depth |-> 0, hops |-> 0]]

\* crawl, lines 217-222
crawl_begin ==
    /\ pc = "idle"
    /\ \E start_urls \in SeedLists : to_visit' = Seeded(start_urls)
    /\ visited_urls' = {}
    /\ results' = <<>>
    /\ pages_crawled' = 0
    /\ pc' = "loop"
    /\ UNCHANGED <<max_depth, same_domain_only, max_pages, robots_cache, last_request_time,
                   playwright_browser, playwright_instance, PLAYWRIGHT_AVAILABLE,
                   cur, result, history_vars, not_crawl_vars>>

\* a plausible bug: the loop runs while the frontier is not empty
Mut_LoopGuard_no_budget == to_visit # <<>>

\* crawl, line 224: "while to_visit and pages_crawled < self.max_pages"
LoopGuard == to_visit # <<>> /\ pages_crawled < max_pages

\* a plausible bug: the visited test is left out
Mut_ShouldSkip_no_visited(normalized_url, depth) == depth > max_depth

\* crawl, line 231
ShouldSkip(normalized_url, depth) ==
    normalized_url \in visited_urls \/ depth > max_depth

\* crawl, lines 225-228: the target popped and its URL, normalised again
Target == Head(to_visit)

\* a plausible bug: the target is read but stays in the frontier
Mut_Popped_not_removed(frontier) == frontier

\* crawl, line 225: "to_visit.pop(0)" leaves the rest of the frontier
Popped(frontier) == Tail(frontier)

TargetUrl == _normalize_url(Target.url)

\* crawl, lines 224-232: a target already visited or too deep is dropped
loop_skip ==
    /\ pc = "loop"
    /\ LoopGuard
    /\ ShouldSkip(TargetUrl, Target.depth)
    /\ to_visit' = Popped(to_visit)
    /\ UNCHANGED <<scraper_vars, pc, results, pages_crawled, cur, result,
                   history_vars, not_crawl_vars>>

\* a plausible bug: the URL is marked visited before robots.txt is asked
Mut_VisitedAfterRobots_before(allowed, normalized_url) ==
    visited_urls \cup {normalized_url}

\* crawl, lines 235-241: "continue" comes before "self.visited_urls.add"
VisitedAfterRobots(allowed, normalized_url) ==
    IF allowed THEN visited_urls \cup {normalized_url} ELSE visited_urls

\* crawl, lines 235-238, for the target's URL and the domain of that URL
Blocked(normalized_url, domain, depth) ==
    /\ ~ShouldSkip(normalized_url, depth)
    /\ \E outcome \in ReadChoices(normalized_url), raises \in BOOLEAN :
          /\ ~_check_robots_txt(normalized_url, outcome)
          /\ robots_cache' = CacheAfter(domain, outcome)
          /\ robots_fetches' = FetchesOf(domain, outcome)
          /\ events' = Report(normalized_url, "blocked_by_robots", depth)
          /\ pc' = IF raises THEN "raised" ELSE "loop"
    /\ visited_urls' = VisitedAfterRobots(FALSE, normalized_url)

\* crawl, lines 224-238: robots.txt disallows the target
loop_blocked ==
    /\ pc = "loop"
    /\ LoopGuard
    /\ Blocked(TargetUrl, _get_domain(TargetUrl), Target.depth)
    /\ to_visit' = Popped(to_visit)
    /\ UNCHANGED <<max_depth, same_domain_only, max_pages, last_request_time,
                   playwright_browser, playwright_instance, PLAYWRIGHT_AVAILABLE,
                   results, pages_crawled, cur, result,
                   since_request, last_request, open_drivers, open_browsers, dynamic,
                   earlier_runs, not_crawl_vars>>

\* crawl, lines 235-245, for the target's URL and the domain of that URL
Visit(normalized_url, domain, target) ==
    /\ ~ShouldSkip(normalized_url, target.depth)
    /\ \E outcome \in ReadChoices(normalized_url), raises \in BOOLEAN :
          /\ _check_robots_txt(normalized_url, outcome)
          /\ robots_cache' = CacheAfter(domain, outcome)
          /\ robots_fetches' = FetchesOf(domain, outcome)
          /\ events' = Report(normalized_url, "crawling", target.depth)
          /\ pc' = IF raises THEN "raised" ELSE "extract"
    /\ visited_urls' = VisitedAfterRobots(TRUE, normalized_url)
    /\ pages_crawled' = pages_crawled + 1
    /\ cur' = Some([url |-> normalized_url, depth |-> target.depth, hops |-> target.hops])

\* crawl, lines 224-245: the target is allowed, marked visited and counted
loop_visit ==
    /\ pc = "loop"
    /\ LoopGuard
    /\ Visit(TargetUrl, _get_domain(TargetUrl), Target)
    /\ to_visit' = Popped(to_visit)
    /\ UNCHANGED <<max_depth, same_domain_only, max_pages, last_request_time,
                   playwright_browser, playwright_instance, PLAYWRIGHT_AVAILABLE,
                   results, result, since_request, last_request, open_drivers, open_browsers,
                   dynamic, earlier_runs, not_crawl_vars>>

\* _rate_limit, line 88, and the request that follows it, latency seconds long
StaticRequest(url, domain, slept, latency) ==
    /\ last_request_time' = Later(Put(Later(last_request_time, slept), domain, 0), latency)
    /\ last_request' = Some(RequestTo(domain, url, "static", Later(since_request, slept)))
    /\ since_request' = Later(Put(Later(since_request, slept), domain, 0), latency)

\* a plausible bug: an error of the extraction is not caught and ends crawl
Mut_ExtractExit_uncaught(outcome) ==
    IF outcome.kind = "page" THEN "record" ELSE "raised"

\* _extract_text_static, lines 139-144, _extract_text_playwright, lines 177-182,
\* and _extract_text, lines 201-202: every exception of a tier is caught, so
\* that crawl goes on at line 250 whatever the tier did
ExtractExit(outcome) == "record"

\* _extract_text, lines 187-190: the static result, and whether it is enough
StaticResult(res, outcome) ==
    /\ result' = res
    /\ pc' = IF NeedsPlaywright(res) /\ ExtractExit(outcome) = "record"
             THEN "playwright"
             ELSE ExtractExit(outcome)
    /\ dynamic' = None

\* _extract_text, line 187, and _extract_text_static with its _rate_limit
extract_static ==
    /\ pc = "extract"
    /\ \E outcome \in StaticOutcomes, latency \in Latencies :
          /\ StaticRequest(cur[1].url, _get_domain(cur[1].url),
                           RateLimitSleep(cur[1].url), latency)
          /\ StaticResult(_extract_text_static(cur[1].url, outcome), outcome)
    /\ UNCHANGED <<max_depth, same_domain_only, max_pages, visited_urls, robots_cache,
                   playwright_browser, playwright_instance, PLAYWRIGHT_AVAILABLE,
                   to_visit, results, pages_crawled, cur,
                   events, robots_fetches, open_drivers, open_browsers, earlier_runs, not_crawl_vars>>

\* _extract_text_playwright, lines 152-154: async_playwright().start() and
\* chromium.launch(), when there is no browser yet. starts: the driver starts;
\* launches: the browser starts as well.
StartBrowser(starts, launches, driver, browser) ==
    /\ playwright_instance' = IF starts THEN Some(driver) ELSE playwright_instance
    /\ open_drivers' = IF starts THEN open_drivers \cup {driver} ELSE open_drivers
    /\ playwright_browser' = IF launches THEN Some(browser) ELSE playwright_browser
    /\ open_browsers' = IF launches THEN open_browsers \cup {browser} ELSE open_browsers

\* _extract_text_playwright, line 157: page.goto, which no _rate_limit precedes
PlaywrightRequest(url, domain, navigates, latency) ==
    /\ last_request' = IF navigates
                       THEN Some(RequestTo(domain, url, "playwright", since_request))
                       ELSE last_request
    /\ since_request' = IF navigates
                        THEN Later(Put(since_request, domain, 0), latency)
                        ELSE since_request
    /\ last_request_time' = Later(last_request_time, latency)

\* _extract_text, lines 190-204, and _extract_text_playwright
extract_playwright ==
    /\ pc = "playwright"
    /\ \E outcome \in PlaywrightOutcomes :
       \E latency \in IF Navigates(outcome) THEN Latencies ELSE {0} :
          /\ StartBrowser(playwright_browser = None
                              /\ outcome.kind \in {"launch_error", "goto_error", "page"},
                          playwright_browser = None /\ Navigates(outcome),
                          NextHandle(open_drivers), NextHandle(open_browsers))
          /\ PlaywrightRequest(cur[1].url, _get_domain(cur[1].url),
                               Navigates(outcome), latency)
          /\ result' = IF outcome.kind = "loop_error" THEN result
                       ELSE _extract_text_playwright(cur[1].url, outcome)
          /\ dynamic' = Some(outcome)
          /\ pc' = ExtractExit(outcome)
    /\ UNCHANGED <<max_depth, same_domain_only, max_pages, visited_urls, robots_cache,
                   PLAYWRIGHT_AVAILABLE, to_visit, results, pages_crawled, cur,
                   events, robots_fetches, earlier_runs, not_crawl_vars>>

\* a plausible bug: a link is enqueued at the depth of the page it was found on
Mut_ChildDepth_same(depth) == depth

\* crawl, line 270: "depth + 1"
ChildDepth(depth) == depth + 1

\* a plausible bug: links are followed whatever the depth and the budget
Mut_MayFollowLinks_always(depth) == TRUE

\* crawl, line 264
MayFollowLinks(depth) == depth < max_depth /\ pages_crawled < max_pages

\* crawl, lines 266-269: the links not visited yet, normalised again
Fresh(order) ==
    SelectSeq([i \in 1..Len(order) |-> _normalize_url(order[i])],
              LAMBDA normalized_link : normalized_link \notin visited_urls)

\* crawl, line 270: the targets appended for these links
Targets(fresh, depth, hops) ==
    [i \in 1..Len(fresh) |-> [url |-> fresh[i], depth |-> ChildDepth(depth), hops |-> hops + 1]]

\* a plausible bug: the targets are pushed at the front of the frontier
Mut_Enqueued_in_front(order, depth, hops) == Targets(Fresh(order), depth, hops) \o to_visit

\* crawl, lines 266-270: the frontier after the targets are appended to it
Enqueued(order, depth, hops) == to_visit \o Targets(Fresh(order), depth, hops)

\* crawl, lines 252-258: the page as it is appended to the results
Page(target, res) ==
    [url |-> target.url, via |-> res.via, domain |-> _get_domain(target.url),
     depth |-> target.depth, hops |-> target.hops]

\* crawl, lines 260-270: the callback, then the links of the page
Follow(target, html) ==
    \E raises \in BOOLEAN :
        IF raises
        THEN pc' = "raised" /\ to_visit' = to_visit
        ELSE /\ pc' = "loop"
             /\ IF MayFollowLinks(target.depth)
                THEN \E order \in Orders(_extract_links(html, target.url)) :
                        to_visit' = Enqueued(order, target.depth, target.hops)
                ELSE to_visit' = to_visit

\* crawl, lines 250-270: the page is recorded and its links are enqueued
record_success ==
    /\ pc = "record"
    /\ result # None
    /\ results' = Append(results, Page(cur[1], result[1]))
    /\ events' = Report(cur[1].url, "success", cur[1].depth)
    /\ Follow(cur[1], result[1].html)
    /\ cur' = None
    /\ result' = None
    /\ dynamic' = None
    /\ UNCHANGED <<scraper_vars, pages_crawled, since_request, last_request,
                   robots_fetches, open_drivers, open_browsers, earlier_runs, not_crawl_vars>>

\* crawl, lines 271-273: the extraction gave nothing
record_failed ==
    /\ pc = "record"
    /\ result = None
    /\ events' = Report(cur[1].url, "failed", cur[1].depth)
    /\ \E raises \in BOOLEAN : pc' = IF raises THEN "raised" ELSE "loop"
    /\ cur' = None
    /\ result' = None
    /\ dynamic' = None
    /\ UNCHANGED <<scraper_vars, to_visit, results, pages_crawled, since_request,
                   last_request, robots_fetches, open_drivers, open_browsers, earlier_runs, not_crawl_vars>>

\* crawl, lines 287-299: cleanup() closes the browser and then stops the driver;
\* when browser.close() raises, playwright_instance.stop() is not called. The
\* handles are reset in the finally clause.
Cleanup(close_raises) ==
    /\ open_browsers' = IF playwright_browser # None
                        THEN open_browsers \ {playwright_browser[1]}
                        ELSE open_browsers
    /\ open_drivers' = IF playwright_instance # None /\ ~close_raises
                       THEN open_drivers \ {playwright_instance[1]}
                       ELSE open_drivers
    /\ playwright_browser' = None
    /\ playwright_instance' = None

\* crawl, lines 276-301: the loop has ended; the browser is torn down and the
\* results are returned
crawl_return ==
    /\ pc = "loop"
    /\ ~LoopGuard
    /\ \E close_raises \in IF playwright_browser # None THEN BOOLEAN ELSE {FALSE} :
          Cleanup(close_raises)
    /\ pc' = "returned"
    /\ UNCHANGED <<max_depth, same_domain_only, max_pages, visited_urls, robots_cache,
                   last_request_time, PLAYWRIGHT_AVAILABLE,
                   to_visit, results, pages_crawled, cur, result,
                   since_request, last_request, events, robots_fetches, dynamic, earlier_runs, not_crawl_vars>>

\* bound: the calls of crawl on one instance after the first one
MaxReruns == 1

\* crawl, lines 217-222, called again on the instance whose earlier call has
\* returned: visited_urls is cleared and the locals are set up anew, while
\* robots_cache and last_request_time are left as they are. What the earlier
\* run reported and fetched is forgotten: events and robots_fetches record
\* the run that starts here.
crawl_again ==
    /\ pc = "returned"
    /\ earlier_runs < MaxReruns
    /\ \E start_urls \in SeedLists : to_visit' = Seeded(start_urls)
    /\ visited_urls' = {}
    /\ results' = <<>>
    /\ pages_crawled' = 0
    /\ pc' = "loop"
    /\ events' = <<>>
    /\ robots_fetches' = <<>>
    /\ earlier_runs' = earlier_runs + 1
    /\ UNCHANGED <<max_depth, same_domain_only, max_pages, robots_cache, last_request_time,
                   playwright_browser, playwright_instance, PLAYWRIGHT_AVAILABLE,
                   cur, result, since_request, last_request, open_drivers, open_browsers,
                   dynamic, not_crawl_vars>>

Next ==
    \/ crawl_begin
    \/ loop_skip
    \/ loop_blocked
    \/ loop_visit
    \/ extract_static
    \/ extract_playwright
    \/ record_success
    \/ record_failed
    \/ crawl_return

Spec == Init /\ [][Next]_vars

\* One WebScraper on which crawl is called again after it returned; the first
\* calls follow no links and crawl two pages at most.
InitRuns == Init /\ max_depth = 0 /\ max_pages = 2

NextRuns == Next \/ crawl_again

SpecRuns == InitRuns /\ [][NextRuns]_vars

\* crawl has not returned and has not been left by an exception
Running == pc \notin {"returned", "raised"}

\* crawl is sequential code: as long as it runs, it keeps taking steps. This
\* is weak fairness of Next, written without ENABLED: every step of Next
\* changes pc or to_visit, and a step is possible in every state of a run
\* that has not ended.
SpecLive == Init /\ [][Next]_vars /\ ([]<>(~Running) \/ []<><<Next>>_vars)

(***************************************************************************)
(* _normalize_url on its own: applied to a URL, to its own result and to   *)
(* a variant of the URL                                                    *)
(***************************************************************************)

MaxTailLen == 4

\* The URLs _normalize_url is applied to. A URL starts with a host (a URL
\* without a scheme) or with a scheme and a host; the characters that follow
\* are a lower-case and an upper-case letter and the delimiters of path,
\* parameters, query and fragment.
NormInputs ==
    {head \o tail :
        head \in {<<"a">>, HTTP \o <<"a">>, <<"H", "T", "T", "P", ":", "/", "/", "A">>},
        tail \in UNION {[1..n -> {"a", "B", "/", ";", "?", "#"}] : n \in 0..MaxTailLen}}

\* Spellings of the same URL: with one more trailing slash, with a fragment,
\* with a query, and in lower case. (After a "?" or a "#" the added slash or
\* query is part of the query or the fragment.)
Variants(url) ==
    { url \o <<"/">>, url \o <<"#", "x">>, url \o <<"?", "x">>, Lower(url) }

\* A scraper that does not crawl, and the URL and the variant to normalise.
NormInit ==
    /\ NotCalled("normalize")
    /\ n_url \in NormInputs
    /\ n_variant \in Variants(n_url)
    /\ n_res = <<>>
    /\ n_vres = None

\* self._normalize_url(url)
normalize_url ==
    /\ n_res = <<>>
    /\ n_res' = <<_normalize_url(n_url)>>
    /\ UNCHANGED <<not_norm_vars, n_url, n_variant, n_vres>>

\* self._normalize_url(self._normalize_url(url)), as crawl does at lines 220
\* and 228 (seeds) and at lines 104, 267 and 228 (links)
normalize_again ==
    /\ Len(n_res) = 1
    /\ n_res' = Append(n_res, _normalize_url(n_res[1]))
    /\ UNCHANGED <<not_norm_vars, n_url, n_variant, n_vres>>

\* self._normalize_url(variant)
normalize_variant ==
    /\ n_vres = None
    /\ n_vres' = Some(_normalize_url(n_variant))
    /\ UNCHANGED <<not_norm_vars, n_url, n_variant, n_res>>

NormNext ==
    \/ normalize_url
    \/ normalize_again
    \/ normalize_variant

SpecNorm == NormInit /\ [][NormNext]_vars

(***************************************************************************)
(* deduplicate_chunks (ingest/web_embedder.py)                             *)
(***************************************************************************)

\* SIMILARITY_THRESHOLD = 0.95. A threshold is kept in hundredths.
SIMILARITY_THRESHOLD == 95

MaxChunks == 3

\* Embedding vectors. <<3, 4>> and <<4, 3>> have cosine similarity 0.96,
\* <<1, 0>> and <<3, 4>> have 0.6 and <<1, 0>> and <<4, 3>> have 0.8, exactly;
\* <<0, 0>> has norm 0.
Vectors == {<<1, 0>>, <<0, 1>>, <<3, 4>>, <<4, 3>>, <<0, 0>>}

\* np.dot(vec1, vec2)
Dot(vec1, vec2) == vec1[1] * vec2[1] + vec1[2] * vec2[2]

\* a plausible bug: a vector of norm 0 is taken to be like every vector
Mut_Cosine_zero_is_one(dot_product, norms) ==
    IF norms = 0 THEN [dot |-> 1, norms |-> 1] ELSE [dot |-> dot_product, norms |-> norms]

\* cosine_similarity, lines 24-31: the similarity is dot / sqrt(norms), or 0
\* when a norm is 0. It is kept as the pair of dot and norms = norm1^2 * norm2^2,
\* so that it is compared without rounding.
Cosine(dot_product, norms) ==
    IF norms = 0 THEN [dot |-> 0, norms |-> 1] ELSE [dot |-> dot_product, norms |-> norms]

cosine_similarity(vec1, vec2) ==
    Cosine(Dot(vec1, vec2), Dot(vec1, vec1) * Dot(vec2, vec2))

\* a plausible bug: "similarity > threshold"
Mut_IsDuplicate_strict(similarity, t) ==
    similarity.dot > 0 /\ 10000 * similarity.dot * similarity.dot > t * t * similarity.norms

\* deduplicate_chunks, line 54: "similarity >= threshold", for a threshold
\* t >= 0 in hundredths: dot / sqrt(norms) >= t / 100
IsDuplicate(similarity, t) ==
    similarity.dot >= 0 /\ 10000 * similarity.dot * similarity.dot >= t * t * similarity.norms

\* a plausible bug: the candidate is compared with the last chunk kept only
Mut_IsDuplicateOfKept_last(emb, kept) ==
    kept # <<>> /\ IsDuplicate(cosine_similarity(emb, kept[Len(kept)]), threshold)

\* deduplicate_chunks, lines 52-56: the candidate against the chunks kept so far
IsDuplicateOfKept(emb, kept) ==
    \E k \in 1..Len(kept) : IsDuplicate(cosine_similarity(emb, kept[k]), threshold)

\* a plausible bug: the kept item is put in front of the list
Mut_Keep_in_front(list, item) == <<item>> \o list

\* deduplicate_chunks, lines 59-61: list.append
Keep(list, item) == Append(list, item)

\* len(list(zip(chunks, embeddings)))
ZipLen == IF Len(chunks) < Len(embeddings) THEN Len(chunks) ELSE Len(embeddings)

\* A caller has chunks and one embedding for each (embed_web_to_qdrant, line 110),
\* and passes a threshold, kept in hundredths.
DedupInit ==
    /\ NotCalled("dedup")
    /\ \E n \in 0..MaxChunks :
          /\ chunks \in [1..n -> {"A", "B"}]
          /\ embeddings \in [1..n -> Vectors]
    /\ threshold \in {0, 60, 80, SIMILARITY_THRESHOLD}
    /\ dedup_i = 0
    /\ filtered_chunks = <<>>
    /\ filtered_embeddings = <<>>
    /\ kept_indices = <<>>
    /\ dedup_pc = "call"

\* deduplicate_chunks, lines 41-42: at most one chunk, returned as it is
dedup_short ==
    /\ dedup_pc = "call"
    /\ Len(chunks) <= 1
    /\ filtered_chunks' = chunks
    /\ filtered_embeddings' = embeddings
    /\ kept_indices' = [k \in 1..Len(chunks) |-> k - 1]
    /\ dedup_pc' = "done"
    /\ UNCHANGED <<not_dedup_vars, chunks, embeddings, threshold, dedup_i>>

\* deduplicate_chunks, lines 44-48: the loop starts with index 0
dedup_start ==
    /\ dedup_pc = "call"
    /\ Len(chunks) > 1
    /\ filtered_chunks' = <<>>
    /\ filtered_embeddings' = <<>>
    /\ kept_indices' = <<>>
    /\ dedup_i' = 0
    /\ dedup_pc' = "loop"
    /\ UNCHANGED <<not_dedup_vars, chunks, embeddings, threshold>>

\* deduplicate_chunks, lines 48-61: chunk i is like no chunk kept so far
dedup_keep ==
    /\ dedup_pc = "loop"
    /\ dedup_i < ZipLen
    /\ ~IsDuplicateOfKept(embeddings[dedup_i + 1], filtered_embeddings)
    /\ filtered_chunks' = Keep(filtered_chunks, chunks[dedup_i + 1])
    /\ filtered_embeddings' = Keep(filtered_embeddings, embeddings[dedup_i + 1])
    /\ kept_indices' = Keep(kept_indices, dedup_i)
    /\ dedup_i' = dedup_i + 1
    /\ UNCHANGED <<not_dedup_vars, chunks, embeddings, threshold, dedup_pc>>

\* deduplicate_chunks, lines 48-58: chunk i is a duplicate of a chunk kept
dedup_discard ==
    /\ dedup_pc = "loop"
    /\ dedup_i < ZipLen
    /\ IsDuplicateOfKept(embeddings[dedup_i + 1], filtered_embeddings)
    /\ dedup_i' = dedup_i + 1
    /\ UNCHANGED <<not_dedup_vars, chunks, embeddings, threshold, filtered_chunks,
                   filtered_embeddings, kept_indices, dedup_pc>>

\* deduplicate_chunks, line 63
dedup_return ==
    /\ dedup_pc = "loop"
    /\ dedup_i = ZipLen
    /\ dedup_pc' = "done"
    /\ UNCHANGED <<not_dedup_vars, chunks, embeddings, threshold, dedup_i,
                   filtered_chunks, filtered_embeddings, kept_indices>>

DedupNext ==
    \/ dedup_short
    \/ dedup_start
    \/ dedup_keep
    \/ dedup_discard
    \/ dedup_return

SpecDedup == DedupInit /\ [][DedupNext]_vars

(***************************************************************************)
(* ask_pdf (pipelines/query_pdf.py): the choice of the Groq model          *)
(***************************************************************************)

\* query_pdf.py, lines 98-103; the list is indexed from 1 here
fallback_models ==
    << "llama-3.1-8b-instant", "llama-3.3-70b-versatile",
       "mixtral-8x7b-32768", "llama-3.1-70b-versatile" >>

\* line 118, first half: the text of the error names an unavailable model
ModelUnavailable(error_str) == error_str = "decommissioned"

\* line 118: fallback_models[1:] is tried for such an error, unless the model
\* that failed is itself one of fallback_models[1:]
TriesFallbacks(error_str, name) ==
    ModelUnavailable(error_str) /\ \A k \in 2..4 : name # fallback_models[k]

\* GROQ_MODEL is unset, a model of the list or another model. For each model
\* groq.chat.completions.create answers, or raises an error whose text says
\* "decommissioned", or raises another error.
AskInit ==
    /\ NotCalled("ask")
    /\ user_model \in {None, Some("custom")} \cup {Some(fallback_models[k]) : k \in 1..4}
    /\ groq \in [{fallback_models[k] : k \in 1..4} \cup {"custom"} -> {"ok", "decommissioned", "rate limit"}]
    /\ model_name = None
    /\ fallback_i = 0
    /\ tried = <<>>
    /\ resp = None
    /\ ask_pc = "call"

\* lines 105-144: the model is chosen and asked; an error leads to the
\* fallback loop or is raised again
ask_first(name) ==
    /\ ask_pc = "call"
    /\ model_name' = Some(name)
    /\ tried' = <<name>>
    /\ resp' = IF groq[name] = "ok" THEN Some(name) ELSE None
    /\ ask_pc' = IF groq[name] = "ok" THEN "answered"
                 ELSE IF TriesFallbacks(groq[name], name) THEN "fallback"
                 ELSE "raised"
    /\ fallback_i' = 2
    /\ UNCHANGED <<scraper_vars, crawl_vars, history_vars, norm_vars, dedup_vars,
                   embed_vars, cache_vars, user_model, groq>>

\* lines 119-132: the next model of fallback_models[1:] is asked
ask_fallback ==
    /\ ask_pc = "fallback"
    /\ fallback_i <= Len(fallback_models)
    /\ tried' = Append(tried, fallback_models[fallback_i])
    /\ IF groq[fallback_models[fallback_i]] = "ok"
       THEN /\ resp' = Some(fallback_models[fallback_i])
            /\ model_name' = Some(fallback_models[fallback_i])
            /\ ask_pc' = "answered"
            /\ UNCHANGED fallback_i
       ELSE /\ fallback_i' = fallback_i + 1
            /\ UNCHANGED <<resp, model_name, ask_pc>>
    /\ UNCHANGED <<scraper_vars, crawl_vars, history_vars, norm_vars, dedup_vars,
                   embed_vars, cache_vars, user_model, groq>>

\* lines 133-141: the loop ended without break
ask_all_failed ==
    /\ ask_pc = "fallback"
    /\ fallback_i > Len(fallback_models)
    /\ ask_pc' = "raised"
    /\ UNCHANGED <<scraper_vars, crawl_vars, history_vars, norm_vars, dedup_vars,
                   embed_vars, cache_vars, user_model, groq, model_name, fallback_i, tried, resp>>

AskNext ==
    \/ ask_first(IF user_model = None THEN fallback_models[1] ELSE user_model[1])
    \/ ask_fallback
    \/ ask_all_failed

SpecAsk == AskInit /\ [][AskNext]_vars

(***************************************************************************)
(* embed_web_to_qdrant (ingest/web_embedder.py)                            *)
(***************************************************************************)

MaxCalls == 3

\* splitter.split_text(page['text']) for the pages of the modelled web: the
\* root has two chunks and the second page repeats one of them.
PageChunks(url) == IF url = U_root THEN <<"A", "B">> ELSE <<"B">>

\* model.encode(chunk): equal texts have equal embeddings
Encode(chunk) == IF chunk = "A" THEN <<1, 0>> ELSE <<0, 1>>

\* int(hashlib.md5(url).hexdigest()[:8], 16): two numbers stand for the
\* digests of the two URLs (scaled down to two hexadecimal digits)
UrlHash(url) == IF url = U_root THEN 171 ELSE 222

\* line 147: int(f"{url_hash}{i}", 16) % (2**63), for an index i of one
\* digit. The digits of i are appended to the eight digits of the hash, so for
\* i < 10^7 the number is below 16^15 and "% (2**63)" leaves it as it is.
PointId(url_hash, i) == url_hash * 16 + i

\* lines 87-103: one metadata entry per chunk, page after page. The position
\* of the chunk inside its page is kept beside the source URL (history).
RECURSIVE AllMetadata(_)
AllMetadata(pages) ==
    IF pages = <<>> THEN <<>>
    ELSE [k \in 1..Len(PageChunks(Head(pages))) |->
             [source_url |-> Head(pages), position |-> k - 1,
              text |-> PageChunks(Head(pages))[k]]]
         \o AllMetadata(Tail(pages))

\* lines 118 and 144-163: the points of the chunks kept, numbered by enumerate
Points(filtered_metadata) ==
    [i \in 1..Len(filtered_metadata) |->
        [id |-> PointId(UrlHash(filtered_metadata[i].source_url), i - 1),
         source_url |-> filtered_metadata[i].source_url,
         position |-> filtered_metadata[i].position,
         text |-> filtered_chunks[i]]]

EmbedInit ==
    /\ NotCalled("embed")
    /\ web_pages = <<>>
    /\ all_metadata = <<>>
    /\ store = {}
    /\ written = {}
    /\ n_calls = 0

\* lines 74-115: the chunks of the pages are collected and embedded, and
\* deduplicate_chunks is called
embed_begin(pages) ==
    /\ dedup_pc = "idle"
    /\ n_calls < MaxCalls
    /\ n_calls' = n_calls + 1
    /\ web_pages' = pages
    /\ all_metadata' = AllMetadata(pages)
    /\ chunks' = [k \in 1..Len(AllMetadata(pages)) |-> AllMetadata(pages)[k].text]
    /\ embeddings' = [k \in 1..Len(AllMetadata(pages)) |-> Encode(AllMetadata(pages)[k].text)]
    /\ threshold' = SIMILARITY_THRESHOLD
    /\ dedup_pc' = "call"
    /\ UNCHANGED <<scraper_vars, crawl_vars, history_vars, norm_vars, ask_vars, cache_vars,
                   dedup_i, filtered_chunks, filtered_embeddings, kept_indices,
                   store, written>>

\* lines 118-175: the points are built and upserted; a point of the
\* collection with the id of a new point is replaced
embed_upsert(points) ==
    /\ dedup_pc = "done"
    /\ store' = {p \in store : \A i \in 1..Len(points) : p.id # points[i].id}
                \cup {[id |-> points[i].id, source_url |-> points[i].source_url,
                       text |-> points[i].text] : i \in 1..Len(points)}
    /\ written' = written \cup
           {[source_url |-> points[i].source_url, position |-> points[i].position,
             id |-> points[i].id] : i \in 1..Len(points)}
    /\ dedup_pc' = "idle"
    /\ UNCHANGED <<scraper_vars, crawl_vars, history_vars, norm_vars, ask_vars, cache_vars,
                   chunks, embeddings, threshold, dedup_i, filtered_chunks,
                   filtered_embeddings, kept_indices, web_pages, all_metadata, n_calls>>

EmbedNext ==
    \/ \E pages \in {<<U_root>>, <<U_b>>, <<U_root, U_b>>, <<U_b, U_root>>} :
          embed_begin(pages)
    \/ DedupNext
    \/ embed_upsert(Points([i \in 1..Len(kept_indices) |-> all_metadata[kept_indices[i] + 1]]))

SpecEmbed == EmbedInit /\ [][EmbedNext]_vars

(***************************************************************************)
(* get_embedding_model (utils/model_cache.py)                              *)
(***************************************************************************)

MaxThreads == 3

\* SentenceTransformer is constructed at most this many times in a checked run
MaxLoads == 2

\* The threads that call get_embedding_model, each again and again.
Threads == 1..MaxThreads

\* a plausible bug: the test is not repeated under the lock
Mut_DoubleCheck_skipped(instance, loading) == TRUE

\* line 34: "if _model_instance is None and not _model_loading", under the lock
DoubleCheck(instance, loading) == instance = None /\ ~loading

CacheInit ==
    /\ NotCalled("cache")
    /\ _model_instance = None
    /\ _model_loading = FALSE
    /\ _model_lock = None
    /\ get_pc = [t \in Threads |-> "idle"]
    /\ returned = [t \in Threads |-> None]
    /\ n_loaded = 0

\* line 31: a call tests the globals without the lock
get_check(t) ==
    /\ get_pc[t] = "idle"
    /\ get_pc' = [get_pc EXCEPT ![t] =
          IF _model_instance = None /\ ~_model_loading THEN "lock" ELSE "after"]
    /\ UNCHANGED <<scraper_vars, crawl_vars, history_vars, norm_vars, dedup_vars,
                   ask_vars, embed_vars, _model_instance, _model_loading,
                   _model_lock, returned, n_loaded>>

\* lines 32-36: the lock is taken and the test repeated; either the thread
\* sets _model_loading and goes on to load, or it leaves the with block
get_lock(t) ==
    /\ get_pc[t] = "lock"
    /\ _model_lock = None
    /\ IF DoubleCheck(_model_instance, _model_loading)
       THEN /\ _model_lock' = Some(t)
            /\ _model_loading' = TRUE
            /\ get_pc' = [get_pc EXCEPT ![t] = "load"]
       ELSE /\ get_pc' = [get_pc EXCEPT ![t] = "after"]
            /\ UNCHANGED <<_model_lock, _model_loading>>
    /\ UNCHANGED <<scraper_vars, crawl_vars, history_vars, norm_vars, dedup_vars,
                   ask_vars, embed_vars, _model_instance, returned, n_loaded>>

\* lines 38-49: SentenceTransformer(...) returns a new instance, which is
\* stored, or raises, which ends the call with RuntimeError; in both cases
\* _model_loading is reset and the lock released
get_load(t, loads) ==
    /\ get_pc[t] = "load"
    /\ loads => n_loaded < MaxLoads
    /\ _model_instance' = IF loads THEN Some(n_loaded + 1) ELSE _model_instance
    /\ n_loaded' = IF loads THEN n_loaded + 1 ELSE n_loaded
    /\ _model_loading' = FALSE
    /\ _model_lock' = None
    /\ get_pc' = [get_pc EXCEPT ![t] = IF loads THEN "after" ELSE "idle"]
    /\ UNCHANGED <<scraper_vars, crawl_vars, history_vars, norm_vars, dedup_vars,
                   ask_vars, embed_vars, returned>>

\* lines 51-54: the call raises when there is no instance, else returns it
get_return(t) ==
    /\ get_pc[t] = "after"
    /\ get_pc' = [get_pc EXCEPT ![t] = "idle"]
    /\ returned' = IF _model_instance = None THEN returned
                   ELSE [returned EXCEPT ![t] = _model_instance]
    /\ UNCHANGED <<scraper_vars, crawl_vars, history_vars, norm_vars, dedup_vars,
                   ask_vars, embed_vars, _model_instance, _model_loading,
                   _model_lock, n_loaded>>

CacheNext ==
    \E t \in Threads :
        \/ get_check(t)
        \/ get_lock(t)
        \/ \E loads \in BOOLEAN : get_load(t, loads)
        \/ get_return(t)

SpecCache == CacheInit /\ [][CacheNext]_vars

(***************************************************************************)
(* Properties                                                              *)
(***************************************************************************)

\* The callbacks of one status, by their position in the run.
Reported(status) == {i \in 1..Len(events) : events[i].status = status}

\* The robots.txt queries of the run: each popped target that passes line 231
\* is reported as crawling or as blocked.
Queried == Reported("crawling") \cup Reported("blocked_by_robots")

\* C1: in a crawl run no normalized URL is processed twice: the URLs reported
\* as crawling are pairwise different, every one of them was added to
\* visited_urls and counted exactly once (pages_crawled is the number of
\* visited URLs and of crawling reports), and no URL has two results.
C1_processed_once ==
    /\ \A i, j \in Reported("crawling") : events[i].url = events[j].url => i = j
    /\ \A i \in Reported("crawling") : events[i].url \in visited_urls
    /\ pages_crawled = Cardinality(visited_urls)
    /\ pages_crawled = Cardinality(Reported("crawling"))
    /\ \A i, j \in 1..Len(results) : results[i].url = results[j].url => i = j

\* A page that was extracted is at the head of the frontier again, found
\* through a link (depth 1), with budget left.
C1_witness ==
    /\ pc = "loop"
    /\ LoopGuard
    /\ Target.depth = 1
    /\ TargetUrl \in visited_urls
    /\ \E i \in 1..Len(results) : results[i].url = TargetUrl

\* C2: in every state of a crawl run pages_crawled, which counts successful and
\* failed extractions alike, is at most max_pages, and so is the number of results.
C2_page_budget ==
    /\ pages_crawled <= max_pages
    /\ Len(results) <= max_pages
    /\ Cardinality(Reported("success")) + Cardinality(Reported("failed")) <= max_pages

\* The crawl returned with the budget used up, one of the pages failed, and a
\* target that was never visited is still in the frontier.
C2_witness ==
    /\ pc = "returned"
    /\ pages_crawled = max_pages
    /\ Reported("failed") # {}
    /\ \E k \in 1..Len(to_visit) :
          /\ to_visit[k].depth <= max_depth
          /\ _normalize_url(to_visit[k].url) \notin visited_urls

\* C3: no target deeper than max_depth is processed: the target being
\* extracted, every result and every report to the callback has
\* depth <= max_depth, and is at most max_depth links away from a seed (hops
\* counts the links followed, whatever depth the frontier entry carries).
C3_depth_bound ==
    /\ cur # None => cur[1].depth <= max_depth /\ cur[1].hops <= max_depth
    /\ \A i \in 1..Len(results) :
          results[i].depth <= max_depth /\ results[i].hops <= max_depth
    /\ \A i \in 1..Len(events) : events[i].depth <= max_depth

\* With max_depth = 1 the child /p of the seed was extracted at depth 1, it links
\* to the grandchild /x, and the crawl returned with budget left and /x not visited.
C3_witness ==
    /\ pc = "returned"
    /\ max_depth = 1
    /\ pages_crawled < max_pages
    /\ \E i \in 1..Len(results) : results[i].url = U_p /\ results[i].depth = 1
    /\ U_x \in {_normalize_url(link) : link \in SiteHtml(U_p)}
    /\ U_x \notin visited_urls

\* C4, as the specification states it: every request to a domain, static GET or
\* browser navigation, starts at least MIN_REQUEST_DELAY after the request
\* before it to the same domain.
C4_rate_limited ==
    last_request # None => last_request[1].gap >= MIN_REQUEST_DELAY

\* C5: a URL that the robots policy denies is reported blocked_by_robots and is
\* not processed: it is not in visited_urls, it is never reported as crawling,
\* success or failed, no request is made for it, and it is not counted in
\* pages_crawled, which counts the crawling reports only.
C5_blocked_not_processed ==
    /\ \A i \in Reported("blocked_by_robots") :
          /\ events[i].url \notin visited_urls
          /\ \A j \in 1..Len(events) :
                events[j].url = events[i].url => events[j].status = "blocked_by_robots"
          /\ last_request # None => last_request[1].url # events[i].url
          /\ cur # None => cur[1].url # events[i].url
    /\ pages_crawled = Cardinality(Queried) - Cardinality(Reported("blocked_by_robots"))

\* A URL was blocked, and after it the crawl used its whole budget on other URLs.
C5_witness ==
    /\ pc = "returned"
    /\ pages_crawled = max_pages
    /\ \E i \in Reported("blocked_by_robots") :
          \E j \in Reported("success") : i < j

\* C6, as the specification states it: when fetching robots.txt of a domain
\* failed, no URL of that domain is reported blocked_by_robots.
C6_fail_open ==
    \A f \in 1..Len(robots_fetches) :
        robots_fetches[f].outcome \in FetchFailed =>
            \A i \in Reported("blocked_by_robots") :
                _get_domain(events[i].url) # robots_fetches[f].domain

\* C7: in a crawl run robots.txt is fetched at most once per domain, and only
\* for a domain that is cached afterwards.
C7_one_fetch_per_domain ==
    /\ \A f, g \in 1..Len(robots_fetches) :
          robots_fetches[f].domain = robots_fetches[g].domain => f = g
    /\ \A f \in 1..Len(robots_fetches) : robots_fetches[f].domain \in DOMAIN robots_cache

\* Two URLs of one domain were queried, the fetch of its robots.txt had failed
\* and was not repeated.
C7_witness ==
    /\ Len(robots_fetches) = 1
    /\ robots_fetches[1].outcome = "raise"
    /\ \E i, j \in Queried :
          /\ i < j
          /\ events[i].url # events[j].url
          /\ _get_domain(events[i].url) = robots_fetches[1].domain
          /\ _get_domain(events[j].url) = robots_fetches[1].domain

\* C8, as the specification states it, for the URLs that have the scheme http
\* and a host: _normalize_url applied to its own result gives that result again.
C8_idempotent ==
    Len(n_res) = 2 /\ StartsWith(Lower(n_url), HTTP) => n_res[2] = n_res[1]

\* C9, as the specification states it, for the URLs that have the scheme http
\* and a host: a URL and a variant of it that differs in a trailing slash, a
\* fragment, a query or letter case normalize to the same string.
C9_variants_collapse ==
    Len(n_res) >= 1 /\ n_vres # None /\ StartsWith(Lower(n_url), HTTP) =>
        n_vres[1] = n_res[1]

\* C10, as the specification states it: when crawl has exited, by returning or
\* by an exception, the browser and the driver are closed and the handles are None.
C10_torn_down ==
    pc \in {"returned", "raised"} =>
        /\ playwright_browser = None
        /\ playwright_instance = None
        /\ open_browsers = {}
        /\ open_drivers = {}

\* C11, amended: the headless browser is tried for a URL only if it is
\* available and the static tier failed or gave text shorter than 200
\* characters (PLAYWRIGHT_RETRY_LEN; a static text of 100 to 199 characters is
\* a static result and is still followed by a browser attempt); a static
\* result of at least 200 characters is recorded without a browser attempt.
C11_dynamic_only_if_short ==
    /\ pc = "playwright" =>
          /\ PLAYWRIGHT_AVAILABLE
          /\ result = None \/ result[1].textlen < PLAYWRIGHT_RETRY_LEN
    /\ dynamic # None => PLAYWRIGHT_AVAILABLE
    /\ pc = "record" /\ dynamic = None /\ PLAYWRIGHT_AVAILABLE =>
          result # None /\ result[1].via = "static"
                        /\ result[1].textlen >= PLAYWRIGHT_RETRY_LEN

\* The browser is about to be tried although the static tier gave a result.
C11_witness ==
    /\ pc = "playwright"
    /\ result # None
    /\ result[1].via = "static"
    /\ result[1].textlen >= MIN_TEXT_LEN

\* C11, as the specification states it: the headless browser is tried only if
\* the static tier failed or gave text shorter than 100 characters.
C11_dynamic_only_if_insufficient ==
    pc = "playwright" =>
        /\ PLAYWRIGHT_AVAILABLE
        /\ result = None \/ result[1].textlen < MIN_TEXT_LEN

\* C12: when the static tier gave nothing and the browser is available, the
\* browser is tried; when the browser renders a page with at least 100
\* characters of text, the extraction result is that page, it is appended to
\* the results and success is reported for the URL.
C12_dynamic_result_used ==
    [][ pc = "record" =>
          /\ PLAYWRIGHT_AVAILABLE /\ result = None => dynamic # None
          /\ (dynamic # None /\ dynamic[1].kind = "page"
                             /\ dynamic[1].textlen >= MIN_TEXT_LEN) =>
                /\ result # None
                /\ result[1].via = "playwright"
                /\ result[1].textlen = dynamic[1].textlen
                /\ result[1].html = SiteHtml(cur[1].url)
                /\ results' = Append(results, Page(cur[1], result[1]))
                /\ events' = Report(cur[1].url, "success", cur[1].depth) ]_vars

\* The page last recorded is the one the browser rendered, and success was
\* the last report.
C12_witness ==
    /\ results # <<>>
    /\ results[Len(results)].via = "playwright"
    /\ events[Len(events)].status = "success"
    /\ events[Len(events)].url = results[Len(results)].url

\* C13: a failure of the extraction of one URL does not end the run: crawl is
\* left by an exception only at a callback, never between a request for a URL
\* and the report for it; a URL reported failed is in no result; and every
\* visited URL other than the one in progress was reported success or failed.
C13_failures_absorbed ==
    /\ pc = "raised" =>
          /\ dynamic = None
          /\ result = None
          /\ cur # None /\ last_request # None => last_request[1].url # cur[1].url
    /\ \A i \in Reported("failed") :
          \A k \in 1..Len(results) : results[k].url # events[i].url
    /\ \A u \in visited_urls :
          \/ cur # None /\ cur[1].url = u
          \/ \E i \in Reported("success") \cup Reported("failed") : events[i].url = u

\* The crawl returned two pages, one extracted before and one after a URL
\* that failed.
C13_witness ==
    /\ pc = "returned"
    /\ Len(results) = 2
    /\ \E i, k \in Reported("success") :
          \E j \in Reported("failed") : i < j /\ j < k

\* C14: with same_domain_only, _extract_links gives only normalized links of
\* the domain of the page, and every target the crawl appends to the frontier
\* has the domain of the page being recorded.
C14_same_domain ==
    [][ same_domain_only /\ pc = "record" =>
          /\ result # None =>
                \A link \in _extract_links(result[1].html, cur[1].url) :
                    /\ _get_domain(link) = _get_domain(cur[1].url)
                    /\ \E absolute_url \in result[1].html : link = _normalize_url(absolute_url)
          /\ Len(to_visit') >= Len(to_visit)
          /\ \A k \in (Len(to_visit) + 1)..Len(to_visit') :
                _get_domain(to_visit'[k].url) = _get_domain(cur[1].url) ]_vars

\* With same_domain_only and max_depth = 1 the root was extracted, its same-
\* domain link /p was visited, and the crawl returned with budget left without
\* the external link of the root in the visited set or the frontier.
C14_witness ==
    /\ same_domain_only
    /\ max_depth = 1
    /\ pc = "returned"
    /\ pages_crawled < max_pages
    /\ \E k \in 1..Len(results) : results[k].url = U_root
    /\ U_b \in {_normalize_url(link) : link \in SiteHtml(U_root)}
    /\ {U_root, U_p} \subseteq visited_urls
    /\ U_b \notin visited_urls
    /\ \A k \in 1..Len(to_visit) : to_visit[k].url # U_b

\* Whether the cosine similarity of two vectors is at least t hundredths,
\* computed from the definition: 0 when a norm is 0, else dot / (norm1 * norm2).
SimilarAtLeast(vec1, vec2, t) ==
    IF Dot(vec1, vec1) = 0 \/ Dot(vec2, vec2) = 0
    THEN 0 >= t
    ELSE /\ Dot(vec1, vec2) >= 0
         /\ 10000 * Dot(vec1, vec2) * Dot(vec1, vec2)
               >= t * t * Dot(vec1, vec1) * Dot(vec2, vec2)

\* The 0-based indices of the chunks looked at so far.
Looked == IF dedup_pc = "loop" THEN 0..(dedup_i - 1)
          ELSE IF dedup_pc = "done" THEN 0..(Len(chunks) - 1)
          ELSE {}

\* The 0-based indices kept so far.
KeptSet == {kept_indices[k] : k \in 1..Len(kept_indices)}

\* C15: a chunk is discarded exactly when its cosine similarity to a chunk
\* kept before it is at least the threshold (equality discards), and is kept
\* when every such similarity is below the threshold.
C15_discard_iff_similar ==
    \A j \in Looked :
        j \notin KeptSet <=>
            \E k \in KeptSet :
                k < j /\ SimilarAtLeast(embeddings[j + 1], embeddings[k + 1], threshold)

\* The call returned, the second chunk was discarded for a similarity that is
\* exactly the threshold (0.6), and the third was kept.
C15_witness ==
    /\ dedup_pc = "done"
    /\ threshold = 60
    /\ Len(chunks) = 3
    /\ embeddings[1] = <<1, 0>>
    /\ embeddings[2] = <<3, 4>>
    /\ kept_indices = <<0, 2>>

\* C16: the chunks kept are in input order and the three lists are parallel:
\* kept_indices is strictly increasing, the lists have one length, position k
\* of the filtered lists holds the chunk and the embedding of input index
\* kept_indices[k], and the first chunk of a non-empty input is kept.
C16_order_preserved ==
    /\ \A k, l \in 1..Len(kept_indices) : k < l => kept_indices[k] < kept_indices[l]
    /\ Len(filtered_chunks) = Len(kept_indices)
    /\ Len(filtered_embeddings) = Len(kept_indices)
    /\ \A k \in 1..Len(kept_indices) :
          /\ kept_indices[k] \in 0..(Len(chunks) - 1)
          /\ filtered_chunks[k] = chunks[kept_indices[k] + 1]
          /\ filtered_embeddings[k] = embeddings[kept_indices[k] + 1]
    /\ dedup_pc = "done" /\ chunks # <<>> => kept_indices # <<>> /\ kept_indices[1] = 0

\* For three chunks of which the second duplicates the first, the call
\* returned the first and the third with the indices 0 and 2.
C16_witness ==
    /\ dedup_pc = "done"
    /\ threshold = SIMILARITY_THRESHOLD
    /\ chunks = <<"A", "A", "B">>
    /\ embeddings = <<<<3, 4>>, <<4, 3>>, <<0, 1>>>>
    /\ filtered_chunks = <<"A", "B">>
    /\ filtered_embeddings = <<<<3, 4>>, <<0, 1>>>>
    /\ kept_indices = <<0, 2>>

\* The position of crawl inside one iteration, counted down to the loop head.
Stage ==
    CASE pc = "extract"    -> 5
      [] pc = "playwright" -> 4
      [] pc = "record"     -> 3
      [] pc = "loop"       -> 2
      [] pc = "returned"   -> 1
      [] OTHER             -> 0

\* What is left of a run: whether it has started, the pages left in the
\* budget (the page being extracted still counts), the length of the frontier
\* and the stage.
CrawlRank ==
    << IF pc = "idle" THEN 1 ELSE 0,
       max_pages - pages_crawled + (IF cur = None THEN 0 ELSE 1),
       Len(to_visit),
       Stage >>

\* The lexicographic order of ranks.
RankLess(a, b) ==
    \E i \in 1..4 : a[i] < b[i] /\ \A j \in 1..(i - 1) : a[j] = b[j]

\* C17: every crawl run ends after finitely many steps: each step lowers the
\* rank of the run, whose components are natural numbers, and every run
\* reaches its end. When crawl returns its result list, the frontier is empty
\* or pages_crawled has reached max_pages. (A run is also ended by an
\* exception of the caller's progress_callback.)
C17_terminates ==
    /\ [][RankLess(CrawlRank', CrawlRank)]_vars
    /\ [](\A i \in 1..4 : CrawlRank[i] >= 0)
    /\ <>(~Running)
    /\ [](pc = "returned" => to_visit = <<>> \/ pages_crawled >= max_pages)

\* crawl returned two pages with budget left, because the frontier was empty,
\* on a site whose links form cycles.
C17_witness ==
    /\ pc = "returned"
    /\ to_visit = <<>>
    /\ pages_crawled < max_pages
    /\ Len(results) = 2

\* C18: when the configured model fails with a "model unavailable" error, the
\* models of the fallback list are asked in list order up to the first one that
\* answers, that answer is used, and an error is raised only when every model
\* of the list has failed.
C18_fallback_in_order ==
    ask_pc \in {"answered", "raised"} /\ ModelUnavailable(groq[tried[1]]) =>
        /\ \A k \in 1..4 :
              (\A l \in 1..(k - 1) : groq[fallback_models[l]] # "ok")
                  => \E n \in 1..Len(tried) : tried[n] = fallback_models[k]
        /\ \A k \in 1..4 :
              groq[fallback_models[k]] = "ok"
              /\ (\A l \in 1..(k - 1) : groq[fallback_models[l]] # "ok")
                  => ask_pc = "answered" /\ resp = Some(fallback_models[k])
        /\ ask_pc = "raised" => \A k \in 1..4 : groq[fallback_models[k]] # "ok"

\* C19: the identifier of a point is a function of the source URL of its chunk
\* and of the chunk's index in that page: whenever the same chunk of the same
\* page is written, in the same call or a later one and whatever other pages
\* the call embeds, it is written under the same identifier.
C19_id_of_url_and_index ==
    \A p, q \in written :
        p.source_url = q.source_url /\ p.position = q.position => p.id = q.id

\* C20: under every interleaving of calls, SentenceTransformer is constructed
\* successfully at most once, and all calls that return a value return the
\* same instance, the one stored in _model_instance.
C20_single_instance ==
    /\ n_loaded <= 1
    /\ \A t \in Threads : returned[t] # None => returned[t] = _model_instance
    /\ \A t, u \in Threads :
          returned[t] # None /\ returned[u] # None => returned[t] = returned[u]

\* A thread has got the instance, while another thread, which saw no instance
\* at line 31, is about to take the lock and a third is between its test and
\* its return.
C20_witness ==
    /\ n_loaded = 1
    /\ \E t, u, v \in Threads :
          /\ returned[t] = Some(1)
          /\ get_pc[u] = "lock"
          /\ get_pc[v] = "after"

\* C21: the reports of a run follow the per-URL protocol: only the four
\* statuses are reported; a "crawling" report is followed at once by one
\* "success" or "failed" report for the same URL and depth (the last report is
\* "crawling" only while that URL is being extracted, or when the callback
\* raised); every "success" or "failed" report follows the "crawling" report of
\* its URL and depth at once, so that a "blocked_by_robots" report stands
\* alone; and there are as many "success" reports as pages in the result list.
C21_report_protocol ==
    /\ \A i \in 1..Len(events) :
          /\ events[i].status \in {"crawling", "success", "failed", "blocked_by_robots"}
          /\ events[i].status = "crawling" =>
                IF i < Len(events)
                THEN /\ events[i + 1].status \in {"success", "failed"}
                     /\ events[i + 1].url = events[i].url
                     /\ events[i + 1].depth = events[i].depth
                ELSE pc \in {"extract", "playwright", "record", "raised"}
          /\ events[i].status \in {"success", "failed"} =>
                /\ i > 1
                /\ events[i - 1].status = "crawling"
                /\ events[i - 1].url = events[i].url
                /\ events[i - 1].depth = events[i].depth
    /\ Cardinality(Reported("success")) = Len(results)

\* crawl returned after it reported a blocked URL, a failed one and a
\* successful one at depth 1.
C21_witness ==
    /\ pc = "returned"
    /\ Reported("blocked_by_robots") # {}
    /\ Reported("failed") # {}
    /\ \E i \in Reported("success") : events[i].depth = 1

\* C22: a step lengthens the frontier only when it records a successfully
\* extracted page of depth d < max_depth while pages_crawled < max_pages; the
\* targets it appends are normalized links of that page that are not in
\* visited_urls, at depth d + 1. A failed or blocked page appends nothing.
\* So every frontier entry has depth 0 or the depth of a recorded page that
\* links to it, plus 1.
C22_enqueue_rule ==
    /\ [][ pc # "idle" /\ Len(to_visit') > Len(to_visit) =>
             /\ pc = "record"
             /\ result # None
             /\ cur[1].depth < max_depth
             /\ pages_crawled < max_pages
             /\ SubSeq(to_visit', 1, Len(to_visit)) = to_visit
             /\ \A k \in (Len(to_visit) + 1)..Len(to_visit') :
                   /\ to_visit'[k].depth = cur[1].depth + 1
                   /\ to_visit'[k].url \notin visited_urls
                   /\ \E absolute_url \in result[1].html :
                         to_visit'[k].url = _normalize_url(_normalize_url(absolute_url)) ]_vars
    /\ [](\A k \in 1..Len(to_visit) :
             \/ to_visit[k].depth = 0
             \/ \E r \in 1..Len(results) :
                   /\ to_visit[k].depth = results[r].depth + 1
                   /\ \E absolute_url \in SiteHtml(results[r].url) :
                         to_visit[k].url = _normalize_url(absolute_url))

\* The frontier holds a link at depth 1 of the one recorded page, after
\* another page failed and enqueued nothing.
C22_witness ==
    /\ pc = "loop"
    /\ Len(results) = 1
    /\ Reported("failed") # {}
    /\ \E k \in 1..Len(to_visit) : to_visit[k].depth = 1

\* C23: the frontier is a first-in first-out queue in level order: in every
\* state its depths never decrease from front to back, the depths of the
\* targets reported never decrease, no target waiting is shallower than one
\* already taken, and a URL that was crawled has no shallower entry waiting.
C23_level_order ==
    /\ \A k, l \in 1..Len(to_visit) : k < l => to_visit[k].depth <= to_visit[l].depth
    /\ \A i, j \in 1..Len(events) : i < j => events[i].depth <= events[j].depth
    /\ \A i \in 1..Len(events), k \in 1..Len(to_visit) :
          pc # "idle" => events[i].depth <= to_visit[k].depth
    /\ \A r, s \in 1..Len(results) : r < s => results[r].depth <= results[s].depth

\* A page of depth 0 was crawled while a deeper entry for the same URL waits
\* behind a seed in the frontier.
C23_witness ==
    /\ pc = "loop"
    /\ \E i \in Reported("crawling"), k, l \in 1..Len(to_visit) :
          /\ l < k
          /\ to_visit[l].depth = 0
          /\ to_visit[k].url = events[i].url
          /\ events[i].depth < to_visit[k].depth

\* C24: in a call of crawl that follows an earlier call on the same instance,
\* the first robots query for a domain fetches robots.txt again: every URL
\* reported in that call belongs to a domain fetched in that call.
C24_refetch_each_run ==
    earlier_runs > 0 =>
        \A i \in 1..Len(events) :
            \E f \in 1..Len(robots_fetches) :
                robots_fetches[f].domain = _get_domain(events[i].url)

\* C25: while crawl runs, the driver and the browser are started once at
\* most and every started driver or browser is the one whose handle the
\* scraper holds, which the teardown at the end of the run closes.
C25_started_once ==
    Running =>
        /\ Cardinality(open_drivers) <= 1
        /\ Cardinality(open_browsers) <= 1
        /\ \A driver \in open_drivers : playwright_instance = Some(driver)
        /\ \A browser \in open_browsers : playwright_browser = Some(browser)

\* C26, amended: for a threshold above 0, a chunk whose embedding is the zero
\* vector has similarity 0 to every vector, is kept, and is no match for a
\* chunk that is discarded: each discarded chunk has a non-zero embedding and
\* is similar to a chunk kept before it whose embedding is not zero.
C26_zero_vector_no_match ==
    threshold > 0 =>
        /\ \A vec \in Vectors :
              /\ cosine_similarity(<<0, 0>>, vec).dot = 0
              /\ cosine_similarity(vec, <<0, 0>>).dot = 0
        /\ \A j \in Looked : embeddings[j + 1] = <<0, 0>> => j \in KeptSet
        /\ \A j \in Looked \ KeptSet, k \in KeptSet :
              k < j /\ embeddings[k + 1] = <<0, 0>> =>
                  ~IsDuplicate(cosine_similarity(embeddings[j + 1], embeddings[k + 1]), threshold)

\* With the default threshold the zero vector of the first chunk and the zero
\* vector of the third are both kept, and so is the chunk between them.
C26_witness ==
    /\ dedup_pc = "done"
    /\ threshold = SIMILARITY_THRESHOLD
    /\ Len(chunks) = 3
    /\ embeddings[1] = <<0, 0>>
    /\ embeddings[3] = <<0, 0>>
    /\ embeddings[2] # <<0, 0>>
    /\ kept_indices = <<0, 1, 2>>

\* C26, as the specification states it, for any threshold passed: a chunk with
\* the zero vector is always kept and is never the match of a discarded chunk.
C26_any_threshold ==
    /\ \A j \in Looked : embeddings[j + 1] = <<0, 0>> => j \in KeptSet
    /\ \A j \in Looked \ KeptSet :
          \E k \in KeptSet :
              /\ k < j
              /\ embeddings[k + 1] # <<0, 0>>
              /\ SimilarAtLeast(embeddings[j + 1], embeddings[k + 1], threshold)

\* C27: in a crawl run each normalized URL is reported blocked_by_robots
\* once at most.
C27_blocked_once ==
    \A i, j \in Reported("blocked_by_robots") : events[i].url = events[j].url => i = j

\* C28: when deduplicate_chunks has returned, no two
\* chunks kept are similar at the threshold or above, every chunk discarded is
\* that similar to a chunk kept before it, and a chunk that is that similar
\* to discarded chunks only is kept.
C28_kept_pairwise_distinct ==
    dedup_pc = "done" =>
        /\ \A k, l \in KeptSet :
              k # l => ~SimilarAtLeast(embeddings[k + 1], embeddings[l + 1], threshold)
        /\ \A j \in 0..(Len(chunks) - 1) :
              j \notin KeptSet =>
                  \E k \in KeptSet :
                      k < j /\ SimilarAtLeast(embeddings[j + 1], embeddings[k + 1], threshold)
        /\ \A j \in 0..(Len(chunks) - 1) :
              (\A k \in 0..(j - 1) :
                  SimilarAtLeast(embeddings[j + 1], embeddings[k + 1], threshold)
                      => k \notin KeptSet)
                  => j \in KeptSet

\* With the threshold 0.8 the second chunk was discarded for the first, and
\* the third, which is similar to the second only, was kept.
C28_witness ==
    /\ dedup_pc = "done"
    /\ threshold = 80
    /\ embeddings = << <<1, 0>>, <<4, 3>>, <<3, 4>> >>
    /\ kept_indices = <<0, 2>>

\* C29: a call of get_embedding_model that arrives while another thread is
\* loading the model waits for it: no call ends at lines 51-54 while a thread
\* is still constructing the model, unless there is an instance to return.
C29_waits_for_loader ==
    [][\A t \in Threads :
          /\ get_pc[t] = "after"
          /\ get_pc'[t] = "idle"
          /\ \E u \in Threads : get_pc[u] = "load"
          => _model_instance # None]_vars

\* C30: a static result, which has at least 100 characters, is not lost to the
\* fallback: when the headless browser is tried for a page that has a static
\* result, whatever the attempt gives, _extract_text still returns a result.
C30_static_result_kept ==
    [][pc = "playwright" /\ result # None => result' # None]_vars

====
